---- MODULE Spec2Model ----
(***************************************************************************)
(* A model of auto-notes.py: the page selector (parse_pages), the header   *)
(* formatter (format_annotation_headers), the page geometry and the        *)
(* per-page annotation loop of annotate_pdf with its on-disk cache, the    *)
(* retried generator call (call_gpt5) and the external renderer            *)
(* (render_md_to_pdf).                                                     *)
(*                                                                         *)
(* Python strings are modelled as sequences of one-character strings, so   *)
(* that split, strip and int act as they do in the code.  Annotation texts *)
(* are sequences of tokens (a recognised header, a line break, a           *)
(* non-breaking space, "**", other text).                                  *)
(***************************************************************************)
EXTENDS Integers, Sequences, FiniteSets, TLC

(***************************************************************************)
(* Bounds of the model.                                                    *)
(***************************************************************************)
MaxSpecLen == 5
MaxTotal == 3
MaxDim == 4
MaxRatioNum == 3
RatioDen == 2
NumPages == 2
MaxCount == 2
MaxSlugLen == 5
MaxBodyLen == 4

\* stop_after_attempt(5)
MaxAttempts == 5

\* title[:120]
TitleMax == 120


(***************************************************************************)
(* State.  The parts of the program are explored each by its own           *)
(* specification: the page selector (ps_), the geometry of one page (g_),  *)
(* _slug (sl_), format_annotation_headers (hd_) and the runs of main() /   *)
(* annotate_pdf against one cache directory.                               *)
(***************************************************************************)
\* the page selector: --pages, the page count, parse_pages' result, line 139
VARIABLES ps_spec, ps_total, ps_pc, ps_pages, ps_iter

ps_vars == <<ps_spec, ps_total, ps_pc, ps_pages, ps_iter>>

\* one page's geometry: page size, ratio numerator, side, the rectangles
VARIABLES g_w, g_h, g_k, g_side, g_pc, g_page, g_orig, g_notes

g_vars == <<g_w, g_h, g_k, g_side, g_pc, g_page, g_orig, g_notes>>

VARIABLES
  pc,          \* where the program is: "start" (not running), "loop",
               \* "generate", "render", or ended: "saved", "aborted"
  err,         \* the exception that ended the run, "" when none
  force, side, ratio,     \* arguments of the run
  pages,       \* parse_pages' result handed to annotate_pdf
  pages_iter,  \* line 139
  pos,         \* position of the loop in pages_iter
  attempt,     \* attempts made by the call of call_gpt5 in progress or just
               \* returned
  prompt,      \* the fields of the prompt last handed to call_gpt5
  note_md,     \* the local note_md
  dst,         \* the output document in memory
  dirs,        \* the cache: the pages whose directory slide_NNN exists
  md, pdf,     \* the cache: note.md and note.pdf of each page
  output,      \* the file this run has saved at output_pdf
  genCalls,    \* history: calls of call_gpt5 per page in this run
  renderIn,    \* history: the texts handed to the renderer per page in this run
  reachedAt,   \* history: note.md of a page as it was when the loop reached it
  saves,       \* history: saves of the output document in this run
  prevDone,    \* history: pages completed by earlier runs that aborted
  everForced,  \* history: some run so far was started with --force
  genOk        \* history: returns of call_gpt5 per page over all the runs so
               \* far, counted as long as no run was started with --force

run_vars ==
  <<pc, err, force, side, ratio, pages, pages_iter, pos, attempt, note_md, dst,
    md, pdf, output, genCalls, renderIn, reachedAt, saves, prevDone,
    everForced, genOk, dirs, prompt>>

\* _slug on its own: the argument, the result, the result of a second call
VARIABLES sl_in, sl_pc, sl_out, sl_again

sl_vars == <<sl_in, sl_pc, sl_out, sl_again>>

\* format_annotation_headers on its own: likewise
VARIABLES hd_in, hd_pc, hd_out, hd_again

hd_vars == <<hd_in, hd_pc, hd_out, hd_again>>

\* the two pure functions explored on their own
fn_vars == <<sl_vars, hd_vars>>

vars == <<ps_vars, g_vars, run_vars, fn_vars>>

(***************************************************************************)
(* Python value shapes: None, a list, a raised exception.                  *)
(***************************************************************************)
None == [kind |-> "none"]
ListOf(s) == [kind |-> "list", val |-> s]
Raised(e) == [kind |-> "error", exc |-> e]

Digits == {"0", "1", "2", "3", "4", "5", "6", "7", "8", "9"}

\* the characters the page specifications explored are written in
Alphabet == {"0", "1", "2", "3", ",", "-", " "}

RECURSIVE SeqsUpTo(_, _)
SeqsUpTo(S, n) ==
  IF n = 0 THEN {<<>>}
  ELSE LET shorter == SeqsUpTo(S, n - 1)
       IN  shorter \cup {Append(s, c) : s \in {t \in shorter : Len(t) = n - 1}, c \in S}

(***************************************************************************)
(* str helpers used by parse_pages                                         *)
(***************************************************************************)
\* position of the first occurrence of c in s, 0 when absent
FirstIndex(s, c) ==
  IF \E i \in 1..Len(s) : s[i] = c
  THEN CHOOSE i \in 1..Len(s) : s[i] = c /\ \A j \in 1..(i - 1) : s[j] # c
  ELSE 0

\* s.split(sep): the list of chunks between separators
RECURSIVE Split(_, _)
Split(s, sep) ==
  LET i == FirstIndex(s, sep)
  IN  IF i = 0 THEN <<s>>
      ELSE <<SubSeq(s, 1, i - 1)>> \o Split(SubSeq(s, i + 1, Len(s)), sep)

\* s.split(sep, 1): at most one split, at the first separator
Split1(s, sep) ==
  LET i == FirstIndex(s, sep)
  IN  IF i = 0 THEN <<s>>
      ELSE <<SubSeq(s, 1, i - 1), SubSeq(s, i + 1, Len(s))>>

RECURSIVE LStrip(_)
LStrip(s) == IF s # <<>> /\ Head(s) = " " THEN LStrip(Tail(s)) ELSE s

RECURSIVE RStrip(_)
RStrip(s) ==
  IF s # <<>> /\ s[Len(s)] = " " THEN RStrip(SubSeq(s, 1, Len(s) - 1)) ELSE s

\* s.strip()
Strip(s) == RStrip(LStrip(s))

DigitVal(c) ==
  CASE c = "0" -> 0 [] c = "1" -> 1 [] c = "2" -> 2 [] c = "3" -> 3 [] c = "4" -> 4
    [] c = "5" -> 5 [] c = "6" -> 6 [] c = "7" -> 7 [] c = "8" -> 8 [] c = "9" -> 9

RECURSIVE DecVal(_)
DecVal(s) ==
  IF s = <<>> THEN 0
  ELSE 10 * DecVal(SubSeq(s, 1, Len(s) - 1)) + DigitVal(s[Len(s)])

AllDigits(s) == s # <<>> /\ \A i \in 1..Len(s) : s[i] \in Digits

\* int(s): surrounding whitespace is ignored, one leading sign is allowed,
\* anything else raises ValueError
IntOf(s) ==
  LET t == Strip(s)
  IN  IF AllDigits(t) THEN [ok |-> TRUE, val |-> DecVal(t)]
      ELSE IF t # <<>> /\ Head(t) = "-" /\ AllDigits(Tail(t))
           THEN [ok |-> TRUE, val |-> 0 - DecVal(Tail(t))]
           ELSE [ok |-> FALSE, val |-> 0]

\* list(range(a, b))
RangeList(a, b) == IF b > a THEN [i \in 1..(b - a) |-> a + i - 1] ELSE <<>>

\* sorted(set(s))
RECURSIVE SortedOfSet(_)
SortedOfSet(S) ==
  IF S = {} THEN <<>>
  ELSE LET m == CHOOSE x \in S : \A y \in S : x <= y
       IN  <<m>> \o SortedOfSet(S \ {m})

SeqRange(s) == {s[i] : i \in 1..Len(s)}

(***************************************************************************)
(* parse_pages                                                             *)
(***************************************************************************)
\* one pass of the loop body: the numbers one chunk adds to sel, or an error
ChunkPages(rawchunk) ==
  LET chunk == Strip(rawchunk)
  IN  IF FirstIndex(chunk, "-") # 0
      THEN LET ab == Split1(chunk, "-")
               a == IntOf(ab[1])
               b == IntOf(ab[2])
           IN  IF a.ok /\ b.ok
               THEN [ok |-> TRUE, val |-> RangeList(a.val, b.val + 1)]
               ELSE [ok |-> FALSE, val |-> <<>>]
      ELSE LET n == IntOf(chunk)
           IN  IF n.ok THEN [ok |-> TRUE, val |-> <<n.val>>]
               ELSE [ok |-> FALSE, val |-> <<>>]

\* the for loop over spec.split(","): sel, or an error at the first bad chunk
RECURSIVE CollectSel(_)
CollectSel(chunks) ==
  IF chunks = <<>> THEN [ok |-> TRUE, val |-> <<>>]
  ELSE LET first == ChunkPages(Head(chunks))
           rest == CollectSel(Tail(chunks))
       IN  IF first.ok /\ rest.ok
           THEN [ok |-> TRUE, val |-> first.val \o rest.val]
           ELSE [ok |-> FALSE, val |-> <<>>]

InRange(p, total) == 1 <= p /\ p <= total

\* as FilterSel, the lower bound of the range test forgotten
FilterSel_NoLowerBound(sel, total) == SelectSeq(sel, LAMBDA p : p <= total)

\* the filter of line 89
FilterSel(sel, total) == SelectSeq(sel, LAMBDA p : InRange(p, total))

\* as SortedOrNone, the "or None" forgotten
SortedOrNone_EmptyList(sel) == ListOf(SortedOfSet(SeqRange(sel)))

\* sorted(set(sel)) or None
SortedOrNone(sel) ==
  LET out == SortedOfSet(SeqRange(sel))
  IN  IF out = <<>> THEN None ELSE ListOf(out)

\* spec is None, or a list holding the string
parse_pages(spec, total) ==
  IF spec = None \/ spec.val = <<>> THEN None
  ELSE LET sel == CollectSel(Split(spec.val, ","))
       IN  IF ~sel.ok THEN Raised("ValueError")
           ELSE SortedOrNone(FilterSel(sel.val, total))

\* as PagesIter, range(1, len(src)) for range(1, len(src)+1)
PagesIter_DropsLast(pgs, total) ==
  IF pgs = None THEN RangeList(1, total) ELSE pgs.val

\* line 139: the pages the loop of annotate_pdf traverses
PagesIter(pgs, total) ==
  IF pgs = None THEN RangeList(1, total + 1) ELSE pgs.val

(***************************************************************************)
(* The page selector on its own: main() resolves --pages against the page  *)
(* count, and annotate_pdf derives the pages it traverses.                 *)
(***************************************************************************)

SpecArgs == {None} \cup {ListOf(s) : s \in SeqsUpTo(Alphabet, MaxSpecLen)}

PagesInit ==
  /\ ps_spec \in SpecArgs
  /\ ps_total \in 0..MaxTotal
  /\ ps_pc = "args"
  /\ ps_pages = None
  /\ ps_iter = <<>>

\* main, line 224, when parse_pages returns
ResolvePages ==
  /\ ps_pc = "args"
  /\ parse_pages(ps_spec, ps_total).kind # "error"
  /\ ps_pages' = parse_pages(ps_spec, ps_total)
  /\ ps_pc' = "resolved"
  /\ UNCHANGED <<ps_spec, ps_total, ps_iter, g_vars, run_vars, fn_vars>>

\* main, line 224, when parse_pages raises: annotate_pdf is never called
ResolveRaises ==
  /\ ps_pc = "args"
  /\ parse_pages(ps_spec, ps_total).kind = "error"
  /\ ps_pages' = parse_pages(ps_spec, ps_total)
  /\ ps_pc' = "raised"
  /\ UNCHANGED <<ps_spec, ps_total, ps_iter, g_vars, run_vars, fn_vars>>

\* annotate_pdf, line 139
DerivePagesIter ==
  /\ ps_pc = "resolved"
  /\ ps_iter' = PagesIter(ps_pages, ps_total)
  /\ ps_pc' = "iterating"
  /\ UNCHANGED <<ps_spec, ps_total, ps_pages, g_vars, run_vars, fn_vars>>



(***************************************************************************)
(* What a page specification denotes, stated without the parser: the       *)
(* chunks between commas, each a number or a range a-b, blanks allowed     *)
(* around the numbers.                                                     *)
(***************************************************************************)
Blank(s, i, j) == \A k \in i..j : s[k] = " "

\* t is a numeral (digits only), possibly surrounded by blanks
IsNumeral(t) ==
  \E i \in 1..Len(t) : \E j \in i..Len(t) :
    /\ Blank(t, 1, i - 1) /\ Blank(t, j + 1, Len(t))
    /\ AllDigits(SubSeq(t, i, j))

\* the value of a numeral
NumVal(t) == DecVal(SelectSeq(t, LAMBDA x : x # " "))

\* the chunks of s: the maximal comma-free stretches
ChunkBounds(s) ==
  {<<i, j>> \in (1..(Len(s) + 1)) \X (0..Len(s)) :
     /\ i <= j + 1
     /\ \A k \in i..j : s[k] # ","
     /\ (i = 1 \/ s[i - 1] = ",")
     /\ (j = Len(s) \/ s[j + 1] = ",")}

ChunksOf(s) == {SubSeq(s, b[1], b[2]) : b \in ChunkBounds(s)}

\* c is a range l-r: the position of its hyphen
IsRangeAt(c, k) ==
  /\ c[k] = "-"
  /\ IsNumeral(SubSeq(c, 1, k - 1))
  /\ IsNumeral(SubSeq(c, k + 1, Len(c)))

\* chunk c is a single number or a range a-b with a <= b
WellFormedChunk(c) ==
  \/ IsNumeral(c)
  \/ \E k \in 1..Len(c) :
       /\ IsRangeAt(c, k)
       /\ NumVal(SubSeq(c, 1, k - 1)) <= NumVal(SubSeq(c, k + 1, Len(c)))

\* chunk c denotes page n
ChunkDenotes(c, n) ==
  \/ IsNumeral(c) /\ NumVal(c) = n
  \/ \E k \in 1..Len(c) :
       /\ IsRangeAt(c, k)
       /\ NumVal(SubSeq(c, 1, k - 1)) <= n
       /\ n <= NumVal(SubSeq(c, k + 1, Len(c)))

WellFormedSpec(spec) ==
  /\ spec # None
  /\ spec.val # <<>>
  /\ \A c \in ChunksOf(spec.val) : WellFormedChunk(c)

\* the pages of lo..hi that spec denotes
DenotedIn(spec, lo, hi) ==
  IF spec = None THEN {}
  ELSE {n \in lo..hi : \E c \in ChunksOf(spec.val) : ChunkDenotes(c, n)}

StrictlyAscending(s) == \A i \in 1..(Len(s) - 1) : s[i] < s[i + 1]

\* C9: for a well-formed spec (numbers and ranges a-b with a <= b, comma
\* separated) parse_pages does not raise, and returns None or a strictly
\* ascending list holding exactly the denoted pages that lie in [1, total].
C9_SelectionSortedExact ==
  (ps_pc # "args" /\ WellFormedSpec(ps_spec)) =>
     /\ ps_pc # "raised"
     /\ ps_pages.kind \in {"none", "list"}
     /\ ps_pages.kind = "list" =>
          /\ StrictlyAscending(ps_pages.val)
          /\ SeqRange(ps_pages.val) = DenotedIn(ps_spec, 1, ps_total)

\* a well-formed spec whose first chunk is a page beyond total and whose later
\* chunks denote at least two pages within it has been resolved to a list
C9_Witness ==
  /\ ps_pc = "resolved"
  /\ WellFormedSpec(ps_spec)
  /\ ps_pages.kind = "list"
  /\ Len(ps_pages.val) >= 2
  /\ ChunkDenotes(Split(ps_spec.val, ",")[1], ps_total + 1)
  /\ \A n \in 1..ps_total : ~ChunkDenotes(Split(ps_spec.val, ",")[1], n)

\* C10: parse_pages returns None for an absent or empty spec and whenever
\* it returns at all with no denoted page in [1, total]; it never returns
\* an empty list; with None the loop traverses every page 1..total.
C10_NoneMeansAllPages ==
  (ps_pc # "args") =>
     /\ (ps_spec = None \/ ps_spec.val = <<>>) => ps_pages = None
     /\ (ps_pc # "raised" /\ DenotedIn(ps_spec, 1, ps_total) = {}) => ps_pages = None
     /\ ps_pages # ListOf(<<>>)
     /\ (ps_pc = "iterating" /\ ps_pages = None) =>
          /\ Len(ps_iter) = ps_total
          /\ \A i \in 1..ps_total : ps_iter[i] = i

\* a well-formed spec whose only pages lie beyond total fell back to all pages
C10_Witness ==
  /\ ps_pc = "iterating"
  /\ ps_total >= 2
  /\ WellFormedSpec(ps_spec)
  /\ DenotedIn(ps_spec, ps_total + 1, ps_total + 3) # {}
  /\ ps_pages = None
  /\ ps_iter = <<1, 2>> \o [i \in 1..(ps_total - 2) |-> i + 2]

\* chunk c is a range a-b with a > b
ReversedRange(c) ==
  \E k \in 1..Len(c) :
    /\ IsRangeAt(c, k)
    /\ NumVal(SubSeq(c, 1, k - 1)) > NumVal(SubSeq(c, k + 1, Len(c)))

\* chunk c is neither a number nor a range of two numbers
NonNumeric(c) == ~IsNumeral(c) /\ ~(\E k \in 1..Len(c) : IsRangeAt(c, k))

HasMalformedToken(spec) ==
  /\ spec # None
  /\ spec.val # <<>>
  /\ \E c \in ChunksOf(spec.val) : NonNumeric(c) \/ ReversedRange(c)

\* C11: parse_pages raises for every spec holding a malformed token, be it a
\* non-numeric token or a reversed range a-b with a > b, and then no page
\* is traversed.
C11_MalformedRaises ==
  (ps_pc # "args" /\ HasMalformedToken(ps_spec)) =>
     /\ ps_pc = "raised"
     /\ ps_iter = <<>>

(***************************************************************************)
(* Page geometry (annotate_pdf, lines 143-155).  Lengths are exact         *)
(* rationals kept as integers in units of 1/RatioDen; the margin ratio is  *)
(* k/RatioDen for a positive k.                                            *)
(***************************************************************************)
Sides == {"right", "left"}
Ratios == 1..MaxRatioNum

Rect(x0, y0, x1, y1) == [x0 |-> x0, y0 |-> y0, x1 |-> x1, y1 |-> y1]
Width(r) == r.x1 - r.x0
Height(r) == r.y1 - r.y0

\* page.rect of a page w wide and h high
PageRect(w, h) == Rect(0, 0, w * RatioDen, h * RatioDen)

\* line 145
NoteW(rect, k) == (Width(rect) * k) \div RatioDen

\* line 146
NewW(rect, k) == Width(rect) + NoteW(rect, k)
NewH(rect) == Height(rect)

\* as OrigRect, the original placed at the left edge on either side
OrigRect_AlwaysAtZero(rect, k, sd) == Rect(0, 0, Width(rect), Height(rect))

\* lines 151 and 154: where the original page is shown
OrigRect(rect, k, sd) ==
  IF sd = "right"
  THEN Rect(0, 0, Width(rect), Height(rect))
  ELSE Rect(NoteW(rect, k), 0, NewW(rect, k), Height(rect))

\* lines 152 and 155
NotesRect(rect, k, sd) ==
  IF sd = "right"
  THEN Rect(Width(rect), 0, NewW(rect, k), NewH(rect))
  ELSE Rect(0, 0, NoteW(rect, k), NewH(rect))

\* str(int(x)) of a length x: truncation to whole page units
IntOfLen(x) == x \div RatioDen


GeomInit ==
  /\ g_w \in 1..MaxDim
  /\ g_h \in 1..MaxDim
  /\ g_k \in Ratios
  /\ g_side \in Sides
  /\ g_pc = "page"
  /\ g_page = Rect(0, 0, 0, 0)
  /\ g_orig = Rect(0, 0, 0, 0)
  /\ g_notes = Rect(0, 0, 0, 0)

\* lines 144-155 for one page
ComposeGeometry ==
  /\ g_pc = "page"
  /\ LET rect == PageRect(g_w, g_h)
     IN  /\ g_page' = Rect(0, 0, NewW(rect, g_k), NewH(rect))
         /\ g_orig' = OrigRect(rect, g_k, g_side)
         /\ g_notes' = NotesRect(rect, g_k, g_side)
  /\ g_pc' = "composed"
  /\ UNCHANGED <<g_w, g_h, g_k, g_side, ps_vars, run_vars, fn_vars>>



\* the unit cells a rectangle covers
Cells(r) == {<<x, y>> : x \in r.x0..(r.x1 - 1), y \in r.y0..(r.y1 - 1)}

\* C7: the rectangle of the original page and the notes rectangle share no
\* interior, both span the full height h, and together they cover exactly the
\* new page of width w + w*r and height h; "right" puts the original at
\* x in [0, w], "left" at x in [w*r, w + w*r].
C7_GeometryTiles ==
  g_pc = "composed" =>
    LET w == g_w * RatioDen
        h == g_h * RatioDen
        wr == g_w * g_k
    IN  /\ Cells(g_orig) \cap Cells(g_notes) = {}
        /\ Cells(g_orig) \cup Cells(g_notes) = Cells(Rect(0, 0, w + wr, h))
        /\ g_page = Rect(0, 0, w + wr, h)
        /\ g_orig.y0 = 0 /\ g_orig.y1 = h
        /\ g_notes.y0 = 0 /\ g_notes.y1 = h
        /\ g_side = "right" => (g_orig.x0 = 0 /\ g_orig.x1 = w)
        /\ g_side = "left" => (g_orig.x0 = wr /\ g_orig.x1 = w + wr)

\* a page has been laid out with the notes on the left and a ratio that is
\* not 1, so that the two columns differ in width
C7_Witness ==
  /\ g_pc = "composed"
  /\ g_side = "left"
  /\ g_k # RatioDen
  /\ g_w # g_h
  /\ Width(g_notes) # Width(g_orig)
(***************************************************************************)
(* _slug (annotate_pdf, lines 131-132) on strings of characters.           *)
(***************************************************************************)
\* the characters explored: an upper-case and a lower-case letter, a digit,
\* a hyphen and a blank
SlugAlphabet == {"A", "b", "1", "-", " "}

\* s.lower(), character by character
LowerChar(c) == IF c = "A" THEN "a" ELSE IF c = "B" THEN "b" ELSE c

Lower(s) == [i \in 1..Len(s) |-> LowerChar(s[i])]

\* the class [a-z0-9], as far as the explored characters go
SlugChar(c) == c \in {"a", "b"} \cup Digits

\* the first position from i on that holds a character of [a-z0-9], or
\* Len(s) + 1
RECURSIVE RunEnd(_, _)
RunEnd(s, i) == IF i > Len(s) \/ SlugChar(s[i]) THEN i ELSE RunEnd(s, i + 1)

\* as SubRuns, the pattern [^a-z0-9] without its +
RECURSIVE SubRuns_PerChar(_, _)
SubRuns_PerChar(s, i) ==
  IF i > Len(s) THEN <<>>
  ELSE (IF SlugChar(s[i]) THEN <<s[i]>> ELSE <<"-">>) \o SubRuns_PerChar(s, i + 1)

\* re.sub(r'[^a-z0-9]+', '-', s) from position i on: every maximal run of
\* other characters becomes one hyphen
RECURSIVE SubRuns(_, _)
SubRuns(s, i) ==
  IF i > Len(s) THEN <<>>
  ELSE IF SlugChar(s[i]) THEN <<s[i]>> \o SubRuns(s, i + 1)
       ELSE <<"-">> \o SubRuns(s, RunEnd(s, i))

RECURSIVE LStripHyphens(_)
LStripHyphens(s) == IF s # <<>> /\ Head(s) = "-" THEN LStripHyphens(Tail(s)) ELSE s

RECURSIVE RStripHyphens(_)
RStripHyphens(s) ==
  IF s # <<>> /\ s[Len(s)] = "-" THEN RStripHyphens(SubSeq(s, 1, Len(s) - 1)) ELSE s

\* s.strip('-')
StripHyphens(s) == RStripHyphens(LStripHyphens(s))

\* line 132
slug(s) == StripHyphens(SubRuns(Lower(s), 1))

SlugInit ==
  /\ sl_in \in SeqsUpTo(SlugAlphabet, MaxSlugLen)
  /\ sl_pc = "arg"
  /\ sl_out = <<>>
  /\ sl_again = <<>>

\* line 135: _slug(course_name)
SlugOnce ==
  /\ sl_pc = "arg"
  /\ sl_out' = slug(sl_in)
  /\ sl_pc' = "once"
  /\ UNCHANGED <<sl_in, sl_again, hd_vars, ps_vars, g_vars, run_vars>>

\* _slug applied to a result of _slug
SlugTwice ==
  /\ sl_pc = "once"
  /\ sl_again' = slug(sl_out)
  /\ sl_pc' = "twice"
  /\ UNCHANGED <<sl_in, sl_out, hd_vars, ps_vars, g_vars, run_vars>>

\* C12: _slug(_slug(s)) = _slug(s), and the result of _slug holds only
\* lower-case letters, digits and hyphens, no hyphen first or last and no
\* two hyphens side by side.
C12_SlugIdempotentClean ==
  /\ (sl_pc \in {"once", "twice"}) =>
        /\ \A i \in 1..Len(sl_out) : SlugChar(sl_out[i]) \/ sl_out[i] = "-"
        /\ sl_out # <<>> => (sl_out[1] # "-" /\ sl_out[Len(sl_out)] # "-")
        /\ \A i \in 1..(Len(sl_out) - 1) : ~(sl_out[i] = "-" /\ sl_out[i + 1] = "-")
  /\ (sl_pc = "twice") => sl_again = sl_out

\* an argument with an upper-case letter, a run of two other characters in
\* its middle and a hyphen at an end has been slugged twice
C12_Witness ==
  /\ sl_pc = "twice"
  /\ \E i \in 1..Len(sl_in) : sl_in[i] = "A"
  /\ \E i \in 2..(Len(sl_in) - 2) :
       ~SlugChar(LowerChar(sl_in[i])) /\ ~SlugChar(LowerChar(sl_in[i + 1]))
       /\ SlugChar(LowerChar(sl_in[i - 1])) /\ SlugChar(LowerChar(sl_in[i + 2]))
  /\ sl_in[1] = "-" \/ sl_in[Len(sl_in)] = "-"
  /\ \E i \in 1..Len(sl_out) : sl_out[i] = "-"

(***************************************************************************)
(* Annotation texts: sequences of tokens.                                  *)
(***************************************************************************)
NL == "\n"
NBSP == "NBSP"
Bold == "**"

\* format_annotation_headers, lines 94-101, in the order the loop takes them
Headers ==
  <<"Title:", "Explanation:", "Equation breakdown:", "Intuition:",
    "Mental checkpoint:", "Connections:">>

\* (?m)^ : position i of body is the start of a line
AtLineStart(body, i) == i = 1 \/ body[i - 1] = NL

\* line 106: "**label:**\n"
Replacement(h) == <<Bold, h, Bold, NL>>

\* re.sub for one header: every match in body is replaced, left to right
RECURSIVE SubFrom(_, _, _)
SubFrom(body, h, i) ==
  IF i > Len(body) THEN <<>>
  ELSE (IF body[i] = h /\ AtLineStart(body, i) THEN Replacement(h) ELSE <<body[i]>>)
       \o SubFrom(body, h, i + 1)

SubHeader(body, h) == SubFrom(body, h, 1)

\* the loop of lines 103-107 from header n on
RECURSIVE FormatFrom(_, _)
FormatFrom(body, n) ==
  IF n > Len(Headers) THEN body
  ELSE FormatFrom(SubHeader(body, Headers[n]), n + 1)

format_annotation_headers(body) == FormatFrom(body, 1)

\* the tokens explored: the first and the fourth header of the list, a line
\* break and a word
BodyTokens == {"Title:", "Intuition:", NL, "x"}

HeadersInit ==
  /\ hd_in \in SeqsUpTo(BodyTokens, MaxBodyLen)
  /\ hd_pc = "arg"
  /\ hd_out = <<>>
  /\ hd_again = <<>>

\* line 179: format_annotation_headers(note_md)
FormatOnce ==
  /\ hd_pc = "arg"
  /\ hd_out' = format_annotation_headers(hd_in)
  /\ hd_pc' = "once"
  /\ UNCHANGED <<hd_in, hd_again, sl_vars, ps_vars, g_vars, run_vars>>

\* format_annotation_headers applied to its own result
FormatTwice ==
  /\ hd_pc = "once"
  /\ hd_again' = format_annotation_headers(hd_out)
  /\ hd_pc' = "twice"
  /\ UNCHANGED <<hd_in, hd_out, sl_vars, ps_vars, g_vars, run_vars>>

IsHeader(t) == \E n \in 1..Len(Headers) : Headers[n] = t

\* body with exactly the headers that stand at a line start of body made
\* bold, each once, and every other token kept
RECURSIVE BoldAtLineStarts(_, _)
BoldAtLineStarts(body, i) ==
  IF i > Len(body) THEN <<>>
  ELSE (IF IsHeader(body[i]) /\ AtLineStart(body, i)
        THEN Replacement(body[i]) ELSE <<body[i]>>)
       \o BoldAtLineStarts(body, i + 1)

\* C13: format_annotation_headers makes a recognized header bold only where
\* it stands at the start of a line of its input, each such occurrence once,
\* and keeps all other text (so an input without a header at a line start
\* comes back unchanged); applied to its own output it changes nothing.
C13_HeadersOnceAtLineStart ==
  /\ (hd_pc \in {"once", "twice"}) => hd_out = BoldAtLineStarts(hd_in, 1)
  /\ (hd_pc = "twice") => hd_again = hd_out

Whitespace == {" ", NL, NBSP}

RECURSIVE LStripWs(_)
LStripWs(s) == IF s # <<>> /\ Head(s) \in Whitespace THEN LStripWs(Tail(s)) ELSE s

RECURSIVE RStripWs(_)
RStripWs(s) ==
  IF s # <<>> /\ s[Len(s)] \in Whitespace THEN RStripWs(SubSeq(s, 1, Len(s) - 1)) ELSE s

\* call_gpt5, line 50: (resp.output_text or "").strip()
StripText(s) == RStripWs(LStripWs(s))

\* line 177
ReplaceNbsp(s) == [i \in 1..Len(s) |-> IF s[i] = NBSP THEN " " ELSE s[i]]

\* as NormalizedNote, the response text taken as it comes
NormalizedNote_Raw(output_text) == output_text

\* lines 175-179: what annotate_pdf makes of a response text
NormalizedNote(output_text) ==
  format_annotation_headers(ReplaceNbsp(StripText(output_text)))

\* response texts of the generation service explored by the run model
GenOutputs ==
  { <<"Explanation:", "x", NL, "Intuition:", "y", NL>>,
    <<" ", "x", NBSP, "y">> }

(***************************************************************************)
(* Files of the cache and the output document.                             *)
(***************************************************************************)
NoFile == [kind |-> "absent"]
File(d) == [kind |-> "file", data |-> d]
Exists(f) == f.kind = "file"

\* as RenderedPdf, NOTE_WIDTH and NOTE_HEIGHT exchanged
RenderedPdf_SwapsDims(markdown, notes_rect) ==
  [md |-> markdown, w |-> IntOfLen(Height(notes_rect)), h |-> IntOfLen(Width(notes_rect))]

\* render_md_to_pdf on exit status 0: the fragment for the text, sized by
\* NOTE_WIDTH and NOTE_HEIGHT (lines 64-65)
RenderedPdf(markdown, notes_rect) ==
  [md |-> markdown, w |-> IntOfLen(Width(notes_rect)), h |-> IntOfLen(Height(notes_rect))]

\* the source document: NumPages pages of differing width
DocPages == 1..NumPages
SrcRect(idx) == PageRect(idx + 1, 2)

\* the numeral of a page number below ten
Numeral(n) ==
  <<CHOOSE c \in Digits : DigitVal(c) = n>>

\* values of --pages tried by the runs: absent, empty, malformed, reversed,
\* single pages up to one beyond the last, pairs listed backwards, ranges that
\* run past the last page
RunPageArgs ==
  {None, ListOf(<<>>), ListOf(<<"x">>), ListOf(<<"2", "-", "1">>),
   ListOf(<<"1", "-", "9">>), ListOf(<<"2", "-", "9">>)}
    \cup {ListOf(Numeral(a)) : a \in 1..(NumPages + 1)}
    \cup {ListOf(Numeral(b) \o <<",">> \o Numeral(a)) :
            a \in 1..NumPages, b \in 1..NumPages}

(***************************************************************************)
(* The text of the slides and the prompt made of it (lines 52-59, 168-174).*)
(***************************************************************************)
\* what PyMuPDF gives for page idx of the document explored: get_text("text")
\* and the strings of get_text("blocks").  Of every three pages the first
\* has a title line and a body line, the second has nothing at all, the
\* third has blanks as its text and one block.
SrcContent(idx) ==
  CASE idx % 3 = 1 -> [text |-> <<NL, "T", NL, " ", NL, "b", NL>>, blocks |-> <<<<"T">>, <<"b">>>>]
    [] idx % 3 = 2 -> [text |-> <<>>, blocks |-> <<>>]
    [] OTHER -> [text |-> <<" ", NL>>, blocks |-> <<<<"k", NL>>>>]

\* "\n".join(blocks)
RECURSIVE JoinLines(_)
JoinLines(blocks) ==
  IF blocks = <<>> THEN <<>>
  ELSE IF Len(blocks) = 1 THEN blocks[1]
  ELSE blocks[1] \o <<NL>> \o JoinLines(Tail(blocks))

\* lines 54-59
extract_text(page) ==
  LET t == StripText(page.text)
  IN  IF t = <<>> THEN StripText(JoinLines(page.blocks)) ELSE t

\* f"Slide {idx}"
SlideTitle(idx) == <<"Slide", " ">> \o Numeral(idx)

\* line 169: the first line of raw that is not blank, or the default
RECURSIVE FirstNonBlank(_, _)
FirstNonBlank(lines, default) ==
  IF lines = <<>> THEN default
  ELSE IF StripText(Head(lines)) # <<>> THEN Head(lines)
  ELSE FirstNonBlank(Tail(lines), default)

\* s[:n]
Prefix(s, n) == SubSeq(s, 1, IF Len(s) < n THEN Len(s) ELSE n)

NoTextDetected == <<"(no text detected)">>

\* as PromptBody, the placeholder forgotten
PromptBody_NoPlaceholder(raw) == raw

\* line 173: raw if raw else "(no text detected)"
PromptBody(raw) == IF raw # <<>> THEN raw ELSE NoTextDetected

\* lines 168-174: the fields of the prompt that come from the slide
PromptFor(idx) ==
  LET raw == extract_text(SrcContent(idx))
      title == FirstNonBlank(Split(raw, NL), SlideTitle(idx))
  IN  [title |-> Prefix(title, TitleMax), body |-> PromptBody(raw)]

\* the prompt fields of every page of the document
DocPrompts == [idx \in DocPages |-> PromptFor(idx)]

(***************************************************************************)
(* Runs of main() / annotate_pdf against one cache directory (one course,  *)
(* one document, one cache root).                                          *)
(***************************************************************************)
Unreached == [kind |-> "unreached"]

\* the margin ratios of the runs, the smallest and the largest numerator; a
\* behaviour keeps one ratio over its runs
RunRatios == {1, MaxRatioNum}

RunInit ==
  /\ pc = "start"
  /\ err = ""
  /\ force = FALSE
  /\ side = "right"
  /\ ratio \in RunRatios
  /\ pages = None
  /\ pages_iter = <<>>
  /\ pos = 1
  /\ attempt = 0
  /\ prompt = None
  /\ note_md = <<>>
  /\ dst = <<>>
  /\ dirs = {}
  /\ md = [p \in DocPages |-> NoFile]
  /\ pdf = [p \in DocPages |-> NoFile]
  /\ output = NoFile
  /\ genCalls = [p \in DocPages |-> 0]
  /\ renderIn = [p \in DocPages |-> <<>>]
  /\ reachedAt = [p \in DocPages |-> Unreached]
  /\ saves = 0
  /\ prevDone = {}
  /\ everForced = FALSE
  /\ genOk = [p \in DocPages |-> 0]

Ended == pc \in {"saved", "aborted"}

\* the pages this run has processed completely
Done == {pages_iter[i] : i \in 1..(pos - 1)}

\* the process is gone: nothing is left in memory, the cache files stay
ProcessExit ==
  /\ Ended
  /\ pc' = "start"
  /\ err' = ""
  /\ force' = FALSE /\ side' = "right"
  /\ UNCHANGED ratio
  /\ pages' = None
  /\ pages_iter' = <<>>
  /\ pos' = 1
  /\ attempt' = 0
  /\ prompt' = None
  /\ note_md' = <<>>
  /\ dst' = <<>>
  /\ output' = NoFile
  /\ genCalls' = [p \in DocPages |-> 0]
  /\ renderIn' = [p \in DocPages |-> <<>>]
  /\ reachedAt' = [p \in DocPages |-> Unreached]
  /\ saves' = 0
  /\ prevDone' = IF pc = "aborted" THEN prevDone \cup Done ELSE prevDone
  /\ UNCHANGED <<dirs, md, pdf, everForced, genOk, ps_vars, g_vars, fn_vars>>

\* a run starts with nothing in memory but its arguments, as ProcessExit left
\* it, and with the files as they are
FreshRun ==
  UNCHANGED <<pos, attempt, note_md, dst, md, pdf, output, genCalls, renderIn,
              reachedAt, saves, prevDone, dirs, prompt, ps_vars, g_vars, fn_vars>>

\* a history counter, stopped at MaxCount
CountUp(n) == IF n < MaxCount THEN n + 1 ELSE n

\* the history of --force over the runs, with a run started with force f
ForceSeen(f) ==
  /\ everForced' = (everForced \/ f)
  /\ genOk' = IF f THEN [p \in DocPages |-> 0] ELSE genOk

\* main, line 224: parse_pages raises and the run ends before annotate_pdf;
\* --pages is drawn from args
ParseErrorWith(args) ==
  /\ pc = "start"
  /\ \E arg \in args :
       /\ parse_pages(arg, NumPages).kind = "error"
       /\ UNCHANGED <<force, side, ratio, everForced, genOk>>
       /\ pages' = None
       /\ pages_iter' = <<>>
       /\ pc' = "aborted"
       /\ err' = "ValueError"
  /\ FreshRun

\* annotate_pdf, lines 124-125: Node.js is not installed
NoNodeWith(args) ==
  /\ pc = "start"
  /\ \E arg \in args, f \in BOOLEAN, sd \in Sides :
       /\ parse_pages(arg, NumPages).kind # "error"
       /\ force' = f /\ side' = sd
       /\ ForceSeen(f)
       /\ UNCHANGED ratio
       /\ pages' = parse_pages(arg, NumPages)
       /\ pages_iter' = <<>>
       /\ pc' = "aborted"
       /\ err' = "RuntimeError: Node.js not found"
  /\ FreshRun

\* main and annotate_pdf up to the loop, lines 223-139
StartWith(args) ==
  /\ pc = "start"
  /\ \E arg \in args, f \in BOOLEAN, sd \in Sides :
       /\ parse_pages(arg, NumPages).kind # "error"
       /\ force' = f /\ side' = sd
       /\ ForceSeen(f)
       /\ UNCHANGED ratio
       /\ pages' = parse_pages(arg, NumPages)
       /\ pages_iter' = PagesIter(parse_pages(arg, NumPages), NumPages)
       /\ pc' = "loop"
       /\ err' = ""
  /\ FreshRun

StartRunParseError == ParseErrorWith(RunPageArgs)

StartRunNoNode == NoNodeWith(RunPageArgs)

StartRun == StartWith(RunPageArgs)

\* the starts of the runs followed to their end under fairness: the whole
\* document, a malformed --pages, the last page alone, two pages listed
\* backwards
FairPageArgs ==
  {None, ListOf(<<"x">>), ListOf(Numeral(NumPages)), ListOf(<<"2", ",", "1">>)}

FairParseError == ParseErrorWith(FairPageArgs)

FairNoNode == NoNodeWith(FairPageArgs)

FairStart == StartWith(FairPageArgs)

\* as LoopDone, the save pulled into the loop body
LoopDone_Early(p, iter) == p > 1 \/ p > Len(iter)

\* line 141: the for loop has no page left
LoopDone(p, iter) == p > Len(iter)

\* as NewPage, src[idx] shown for src[idx-1]
NewPage_OffByOne(idx) ==
  [src |-> idx + 1,
   w |-> NewW(SrcRect(idx), ratio),
   h |-> NewH(SrcRect(idx)),
   orig |-> OrigRect(SrcRect(idx), ratio, side),
   notes |-> NoFile]

\* lines 143-155: the new page with the original slide shown on it
NewPage(idx) ==
  [src |-> idx,
   w |-> NewW(SrcRect(idx), ratio),
   h |-> NewH(SrcRect(idx)),
   orig |-> OrigRect(SrcRect(idx), ratio, side),
   notes |-> NoFile]

\* as CacheHit, the test of line 163 always false
CacheHit_Never(idx) == FALSE

\* as CacheHit, note.pdf tested for note.md
CacheHit_ChecksPdf(idx) == (~force) /\ Exists(pdf[idx]) /\ Exists(md[idx])

\* as CacheHit, the negation of force lost
CacheHit_ForceInverted(idx) == force /\ Exists(md[idx])

\* line 163
CacheHit(idx) == (~force) /\ Exists(md[idx])

\* as MkDir, the directories of all pages up to idx made
MkDir_UpTo(ds, idx) == ds \cup (1..idx)

\* line 159: pdir.mkdir(exist_ok=True)
MkDir(ds, idx) == ds \cup {idx}

\* lines 141-165: the loop reaches a page whose note.md is reused
BeginPageHit ==
  /\ pc = "loop"
  /\ ~LoopDone(pos, pages_iter)
  /\ LET idx == pages_iter[pos]
     IN  /\ CacheHit(idx)
         /\ dirs' = MkDir(dirs, idx)
         /\ dst' = Append(dst, NewPage(idx))
         /\ note_md' = md[idx].data
         /\ reachedAt' = [reachedAt EXCEPT ![idx] = md[idx]]
  /\ pc' = "render"
  /\ UNCHANGED <<err, force, side, ratio, pages, pages_iter, pos, attempt, md, pdf,
                 output, genCalls, renderIn, saves, prevDone,
                 everForced, genOk, prompt, ps_vars, g_vars, fn_vars>>

\* lines 141-175: the loop reaches a page that needs a generation
BeginPageMiss ==
  /\ pc = "loop"
  /\ ~LoopDone(pos, pages_iter)
  /\ LET idx == pages_iter[pos]
     IN  /\ ~CacheHit(idx)
         /\ dirs' = MkDir(dirs, idx)
         /\ dst' = Append(dst, NewPage(idx))
         /\ reachedAt' = [reachedAt EXCEPT ![idx] = md[idx]]
         /\ genCalls' = [genCalls EXCEPT ![idx] = @ + 1]
         /\ prompt' = DocPrompts[idx]
  /\ attempt' = 0
  /\ pc' = "generate"
  /\ UNCHANGED <<err, force, side, ratio, pages, pages_iter, pos, note_md, md, pdf,
                 output, renderIn, saves, prevDone,
                 everForced, genOk, ps_vars, g_vars, fn_vars>>

\* as RetriesLeft, no stop condition
RetriesLeft_Unbounded(n) == TRUE

\* as RetriesLeft, one attempt too many
RetriesLeft_OneMore(n) == n <= MaxAttempts

\* call_gpt5, lines 35-37: the retry decision after a failed attempt
RetriesLeft(n) == n < MaxAttempts

\* one attempt of call_gpt5 raises
GenAttemptFails ==
  /\ pc = "generate"
  /\ attempt' = attempt + 1
  /\ IF RetriesLeft(attempt + 1)
     THEN /\ pc' = "generate"
          /\ err' = err
     ELSE /\ pc' = "aborted"
          /\ err' = "RetryError"
  /\ UNCHANGED <<force, side, ratio, pages, pages_iter, pos, note_md, dst, md, pdf,
                 output, genCalls, renderIn, reachedAt, saves, prevDone,
                 everForced, genOk, dirs, prompt, ps_vars, g_vars, fn_vars>>

\* as WriteText, the write of line 180 left out
WriteText_Skipped(old, text) == old

\* as WriteText, an existing file kept
WriteText_KeepsExisting(old, text) == IF Exists(old) THEN old ELSE File(text)

\* line 180: md_path.write_text replaces whatever the file held
WriteText(old, text) == File(text)

\* one attempt of call_gpt5 returns; lines 175-180
GenAttemptSucceeds ==
  /\ pc = "generate"
  /\ attempt' = attempt + 1
  /\ \E out \in GenOutputs :
       /\ note_md' = NormalizedNote(out)
       /\ md' = [md EXCEPT ![pages_iter[pos]] = WriteText(@, NormalizedNote(out))]
  /\ genOk' = IF everForced THEN genOk
            ELSE [genOk EXCEPT ![pages_iter[pos]] = CountUp(@)]
  /\ pc' = "render"
  /\ UNCHANGED <<err, force, side, ratio, pages, pages_iter, pos, dst, pdf,
                 output, genCalls, renderIn, reachedAt, saves, prevDone,
                 everForced, dirs, prompt, ps_vars, g_vars, fn_vars>>

\* lines 183-193: the renderer exits with status 0
RenderSucceeds ==
  /\ pc = "render"
  /\ LET idx == pages_iter[pos]
         notes_rect == NotesRect(SrcRect(idx), ratio, side)
         pdf_bytes == RenderedPdf(note_md, notes_rect)
     IN  /\ renderIn' = [renderIn EXCEPT ![idx] = Append(@, note_md)]
         /\ pdf' = [pdf EXCEPT ![idx] = File(pdf_bytes)]
         /\ dst' = [dst EXCEPT ![Len(dst)].notes = File([rect |-> notes_rect, pdf |-> pdf_bytes])]
  /\ pos' = pos + 1
  /\ attempt' = 0
  /\ pc' = "loop"
  /\ UNCHANGED <<err, force, side, ratio, pages, pages_iter, note_md, md,
                 output, genCalls, reachedAt, saves, prevDone,
                 everForced, genOk, dirs, prompt, ps_vars, g_vars, fn_vars>>

\* lines 71-74: the renderer exits with a non-zero status
RenderFails ==
  /\ pc = "render"
  /\ renderIn' = [renderIn EXCEPT ![pages_iter[pos]] = Append(@, note_md)]
  /\ pc' = "aborted"
  /\ err' = "RuntimeError: render-note.js failed"
  /\ attempt' = 0
  /\ UNCHANGED <<force, side, ratio, pages, pages_iter, pos, note_md, dst,
                 md, pdf, output, genCalls, reachedAt, saves, prevDone,
                 everForced, genOk, dirs, prompt, ps_vars, g_vars, fn_vars>>

\* lines 196-199, after the last page
SaveOutput ==
  /\ pc = "loop"
  /\ LoopDone(pos, pages_iter)
  /\ output' = File(dst)
  /\ saves' = saves + 1
  /\ pc' = "saved"
  /\ UNCHANGED <<err, force, side, ratio, pages, pages_iter, pos, attempt, note_md,
                 dst, md, pdf, genCalls, renderIn, reachedAt, prevDone,
                 everForced, genOk, dirs, prompt, ps_vars, g_vars, fn_vars>>

(***************************************************************************)
(* Properties of the runs.                                                 *)
(***************************************************************************)
\* the page the loop is at
Current == pages_iter[pos]

InPage == pc \in {"generate", "render"}

\* the pages of the selection in traversal order, from parse_pages' result
Selection == IF pages = None THEN [i \in 1..NumPages |-> i] ELSE pages.val

\* the pages behind the loop's position in a run that stopped
Later == {pages_iter[i] : i \in (pos + 1)..Len(pages_iter)}

Untouched(p) ==
  genCalls[p] = 0 /\ renderIn[p] = <<>> /\ reachedAt[p] = Unreached

\* C1: a page whose note.md exists when the loop reaches it, force being
\* false: call_gpt5 is not called for it, the renderer is handed exactly the
\* stored text, and note.md stays as it was.
C1_HitReusesRecord ==
  \A p \in DocPages :
    ((~force) /\ Exists(reachedAt[p])) =>
       /\ genCalls[p] = 0
       /\ md[p] = reachedAt[p]
       /\ \A i \in 1..Len(renderIn[p]) : renderIn[p][i] = reachedAt[p].data
       /\ (pc = "render" /\ Current = p) => note_md = reachedAt[p].data

\* a page with a stored note has been processed without force
C1_Witness ==
  \E p \in Done :
    /\ ~force
    /\ Exists(reachedAt[p])
    /\ renderIn[p] = <<reachedAt[p].data>>
    /\ pdf[p].data.md = md[p].data

\* C2: with force, call_gpt5 is called for every page the loop reaches,
\* whether or not note.md exists, and once it has returned note.md holds the
\* new text.
C2_ForceRegenerates ==
  force =>
    \A p \in DocPages :
      /\ reachedAt[p] # Unreached => genCalls[p] = 1
      /\ (pc = "render" /\ Current = p) => md[p] = File(note_md)
      /\ \A i \in 1..Len(renderIn[p]) : md[p] = File(renderIn[p][i])

\* with force, a page that had a note has a different one after its generation
C2_Witness ==
  \E p \in Done :
    /\ force
    /\ Exists(reachedAt[p])
    /\ md[p] # reachedAt[p]
    /\ genCalls[p] = 1

\* C3: call_gpt5 makes at most 5 attempts for a page; when one of them
\* succeeds its result is used and no error is raised; when all 5 fail the run
\* is aborted and no later page is generated or rendered.
C3_FiveAttempts ==
  /\ attempt \in 0..5
  /\ pc = "generate" => attempt < 5
  /\ (pc = "render" /\ genCalls[Current] = 1) =>
       /\ attempt \in 1..5
       /\ err = ""
       /\ md[Current] = File(note_md)
  /\ err = "RetryError" =>
       /\ pc = "aborted"
       /\ attempt = 5
       /\ renderIn[Current] = <<>>
       /\ \A p \in Later : Untouched(p)

\* the fifth attempt for a page failed while another page was still to come
C3_Witness ==
  /\ err = "RetryError"
  /\ Later # {}
  /\ Later \cap Done = {}

\* C4: the output is saved at most once in a run, and a run that has ended
\* has saved it exactly when every selected page was processed and no error
\* was raised; a run aborted by the generator or the renderer has processed
\* no later page and saved nothing.
C4_SaveIffAllPages ==
  /\ saves <= 1
  /\ (saves = 1) <=> (pc = "saved")
  /\ (saves = 1) <=> Exists(output)
  /\ pc = "saved" =>
       /\ err = ""
       /\ pos = Len(Selection) + 1
       /\ \A i \in 1..Len(Selection) : Selection[i] \in Done
  /\ pc = "aborted" =>
       /\ err # ""
       /\ err \in {"RetryError", "RuntimeError: render-note.js failed"} =>
            /\ pos <= Len(pages_iter)
            /\ \A p \in Later : Untouched(p)

\* the renderer failed on a page after another page had been completed
C4_Witness ==
  /\ pc = "aborted"
  /\ err = "RuntimeError: render-note.js failed"
  /\ Done # {}
  /\ output = NoFile

\* C5: the notes of the pages an aborted run had completed stay stored, and a
\* later run without force does not call call_gpt5 for any of them.
C5_RerunReusesCompleted ==
  \A p \in prevDone :
    /\ Exists(md[p])
    /\ (~force) => genCalls[p] = 0

\* a run without force has gone through a page that an earlier, aborted run
\* had completed
C5_Witness ==
  /\ pc = "saved"
  /\ ~force
  /\ \E p \in prevDone \cap Done : renderIn[p] = <<md[p].data>>

\* C6: in a run that has saved its output the renderer was invoked exactly
\* once for each selected page, reused note or new.
C6_RenderOncePerPage ==
  pc = "saved" =>
    \A i \in 1..Len(Selection) : Len(renderIn[Selection[i]]) = 1

\* a saved run with one page reused and another generated
C6_Witness ==
  /\ pc = "saved"
  /\ \E p \in Done, q \in Done :
       /\ genCalls[p] = 0 /\ Len(renderIn[p]) = 1
       /\ genCalls[q] = 1 /\ Len(renderIn[q]) = 1

\* C8: the document in memory holds the pages of the selection in traversal
\* order, one per page reached and nothing else, and the saved output is that
\* document with exactly one composed page per selected page.
C8_OutputFollowsSelection ==
  /\ pc # "start" =>
       /\ Len(dst) <= Len(Selection)
       /\ Len(dst) = (IF InPage \/ (pc = "aborted" /\ pos <= Len(pages_iter)) THEN pos ELSE pos - 1)
       /\ \A i \in 1..Len(dst) : dst[i].src = Selection[i]
       /\ \A i \in 1..(pos - 1) :
            /\ i <= Len(dst)
            /\ Exists(dst[i].notes)
            /\ dst[i].notes.data.pdf = pdf[dst[i].src].data
            /\ dst[i].notes.data.pdf.md = md[dst[i].src].data
  /\ pc = "saved" =>
       /\ output = File(dst)
       /\ Len(output.data) = Len(Selection)

\* a saved output of two pages picked by a selection, not the whole document
\* by default
C8_Witness ==
  /\ pc = "saved"
  /\ pages # None
  /\ Len(output.data) >= 2
  /\ output.data[1].src < output.data[2].src

\* C14: in runs without --force, ended well or aborted, a note.md that
\* exists is never modified or removed; and over a sequence of runs none of
\* which used --force, call_gpt5 returns at most once for each page.
C14_RecordKeptUnforced ==
  /\ [][\A p \in DocPages : ((~force) /\ Exists(md[p])) => md'[p] = md[p]]_vars
  /\ [](~everForced => \A p \in DocPages : genOk[p] <= 1)

\* after a run that aborted, a later run without --force reuses the record
\* the generator wrote in an earlier run, no run so far having used --force
C14_Witness ==
  /\ ~everForced
  /\ prevDone # {}
  /\ pc = "render"
  /\ genCalls[Current] = 0
  /\ genOk[Current] = 1
  /\ Current \in prevDone

RenderFailed == pc = "aborted" /\ err = "RuntimeError: render-note.js failed"

\* C15: on a miss or a forced regeneration note.md holds the new text,
\* whatever it held before, by the time the renderer is invoked; so when the
\* renderer fails on a page, note.md of that page holds the text just
\* generated, which is the text the renderer was handed.
C15_RecordBeforeRender ==
  /\ (pc = "render" /\ genCalls[Current] > 0) => md[Current] = File(note_md)
  /\ \A p \in DocPages :
       (genCalls[p] > 0 /\ renderIn[p] # <<>>) => md[p] = File(renderIn[p][1])
  /\ (RenderFailed /\ genCalls[Current] > 0) =>
       /\ md[Current] = File(note_md)
       /\ renderIn[Current] = <<note_md>>

\* the renderer failed on a page whose record a forced regeneration had just
\* replaced by a different text
C15_Witness ==
  /\ RenderFailed
  /\ force
  /\ genCalls[Current] > 0
  /\ Exists(reachedAt[Current])
  /\ reachedAt[Current] # md[Current]

\* the pages the run in progress has not selected
Unselected == DocPages \ SeqRange(pages_iter)

\* C16: for a page outside the run's selection call_gpt5 and the renderer
\* are never invoked, no step of the run creates its directory, its note.md
\* or its note.pdf, and what exists of them stays as it is.
C16_UnselectedUntouched ==
  /\ [](\A p \in Unselected : genCalls[p] = 0 /\ renderIn[p] = <<>>)
  /\ [][\A p \in Unselected :
          /\ (p \in dirs') = (p \in dirs)
          /\ md'[p] = md[p]
          /\ pdf'[p] = pdf[p]]_vars

\* a forced run over a part of the document has been saved; a page outside
\* it has its record and fragment from an earlier run
C16_Witness ==
  /\ pc = "saved"
  /\ force
  /\ pages_iter # <<>>
  /\ \E p \in Unselected : Exists(md[p]) /\ Exists(pdf[p])

\* both extraction strategies give nothing for page p
EmptyPage(p) ==
  /\ StripText(SrcContent(p).text) = <<>>
  /\ StripText(JoinLines(SrcContent(p).blocks)) = <<>>

\* the page of the output that stands for position i of the selection, as a
\* page that went through the renderer is composed
ComposedPage(i) ==
  LET p == pages_iter[i]
      notes_rect == NotesRect(SrcRect(p), ratio, side)
  IN  [src |-> p,
       w |-> NewW(SrcRect(p), ratio),
       h |-> NewH(SrcRect(p)),
       orig |-> OrigRect(SrcRect(p), ratio, side),
       notes |-> File([rect |-> notes_rect,
                       pdf |-> RenderedPdf(md[p].data, notes_rect)])]

\* C17: a page whose extraction gives nothing raises no error: on a miss
\* or a forced regeneration call_gpt5 is invoked for it with the body
\* "(no text detected)" and the title "Slide {idx}", and the page is rendered
\* and placed in the output as any other.
C17_EmptyPageAnnotated ==
  /\ \A p \in DocPages :
       (EmptyPage(p) /\ reachedAt[p] # Unreached
          /\ (force \/ ~Exists(reachedAt[p]))) => genCalls[p] = 1
  /\ (pc = "generate" /\ EmptyPage(Current)) =>
       prompt = [title |-> SlideTitle(Current), body |-> NoTextDetected]
  /\ (pc = "aborted" /\ pos <= Len(pages_iter) /\ EmptyPage(Current)) =>
       err \in {"RetryError", "RuntimeError: render-note.js failed"}
  /\ (pc = "saved") =>
       \A i \in 1..Len(pages_iter) :
         EmptyPage(pages_iter[i]) =>
           /\ renderIn[pages_iter[i]] = <<md[pages_iter[i]].data>>
           /\ output.data[i] = ComposedPage(i)

\* a run has been saved whose selection holds a page with no text at all,
\* generated in this run from the placeholder prompt
C17_Witness ==
  /\ pc = "saved"
  /\ \E i \in 1..Len(pages_iter) :
       /\ EmptyPage(pages_iter[i])
       /\ genCalls[pages_iter[i]] = 1
       /\ prompt = [title |-> SlideTitle(pages_iter[i]), body |-> NoTextDetected]
       /\ output.data[i] = ComposedPage(i)

Running == pc \in {"loop", "generate", "render"}

\* C18: when every call of the service and every run of the renderer
\* returns, a run that has begun ends, saved or aborted; no call of call_gpt5
\* makes more than five attempts, and no page sees more than one call of
\* call_gpt5 and one run of the renderer in a run.
C18_RunsEnd ==
  /\ Running ~> Ended
  /\ [](/\ attempt <= MaxAttempts
        /\ \A p \in DocPages : genCalls[p] <= 1 /\ Len(renderIn[p]) <= 1)

\* a run ended after a call of call_gpt5 that used all five attempts, on a
\* page that came after a page rendered in the same run
C18_Witness ==
  /\ pc = "aborted"
  /\ attempt = MaxAttempts
  /\ pos > 1
  /\ genCalls[Current] = 1
  /\ Len(renderIn[pages_iter[1]]) = 1

\* text t went through the normalisation: no non-breaking space is left in
\* it and no header stands plain at the start of a line
Normalized(t) ==
  \A i \in 1..Len(t) : t[i] # NBSP /\ ~(IsHeader(t[i]) /\ AtLineStart(t, i))

RetriesExhausted == pc = "aborted" /\ err = "RetryError"

\* C19: note.md is written only once a generation has returned and its text
\* has been normalized: while call_gpt5 is at work, and when it gives up
\* after its last attempt, note.md of the page is what it was when the loop
\* reached the page, so a forced regeneration that fails leaves the old
\* record whole.
C19_RecordOnlyAfterSuccess ==
  /\ \A p \in DocPages : Exists(md[p]) => Normalized(md[p].data)
  /\ (pc = "generate" \/ RetriesExhausted) => md[Current] = reachedAt[Current]
  /\ \A p \in DocPages :
       (reachedAt[p] # Unreached /\ md[p] # reachedAt[p]) =>
          /\ genCalls[p] = 1
          /\ p \in Done \/ (p = Current /\ (pc = "render" \/ RenderFailed))

\* a forced regeneration of a page that had a record gave up after the last
\* attempt, and the record is still there
C19_Witness ==
  /\ RetriesExhausted
  /\ force
  /\ attempt = MaxAttempts
  /\ Exists(reachedAt[Current])
  /\ md[Current] = reachedAt[Current]

\* the fragment a render of text t gives for page p in this run: the text
\* laid out at the whole-unit width and height of the run's notes rectangle
FragmentOf(t, p) ==
  [md |-> t,
   w |-> Width(NotesRect(SrcRect(p), ratio, side)) \div RatioDen,
   h |-> Height(NotesRect(SrcRect(p), ratio, side)) \div RatioDen]

\* note.pdf of page p is there and is not a render of the text note.md holds
Mismatched(p) ==
  Exists(pdf[p]) /\ (~Exists(md[p]) \/ pdf[p].data.md # md[p].data)

\* note.pdf of page p is not a render of its text, and the run is not at
\* the render of p, where the text has just been read or written
StaleFragment(p) == Mismatched(p) /\ ~(pc = "render" /\ p = Current)

\* C20: note.pdf changes only in the step in which the page's render
\* succeeds, and becomes the render of the text handed over; after a run that
\* was saved, note.pdf of each page of the run is the render of the text its
\* note.md holds, at the size of this run's notes rectangle; and a note.pdf
\* that is not a render of the stored text, the render of its page not being
\* under way, comes about only by a run ending with the renderer failing on
\* that page.
C20_FragmentFollowsRecord ==
  /\ [][\A p \in DocPages :
          pdf'[p] # pdf[p] =>
            /\ pc = "render" /\ pc' = "loop" /\ p = Current
            /\ pdf'[p] = File(FragmentOf(note_md, p))]_vars
  /\ [](pc = "saved" =>
          \A p \in SeqRange(pages_iter) :
            pdf[p] = File(FragmentOf(md[p].data, p)))
  /\ [][\A p \in DocPages :
          (StaleFragment(p)' /\ ~StaleFragment(p)) =>
            (RenderFailed' /\ p = Current')]_vars

\* a forced regeneration replaced the text of a page and the renderer then
\* failed: the fragment left is the render of the text before
C20_Witness ==
  /\ RenderFailed
  /\ Mismatched(Current)
  /\ Exists(reachedAt[Current])
  /\ pdf[Current].data.md = reachedAt[Current].data

(***************************************************************************)
(* The specifications.  Each explores one part of the program; the         *)
(* variables of the other parts stay at rest.                              *)
(***************************************************************************)
PagesAtRest ==
  /\ ps_spec = None /\ ps_total = 0 /\ ps_pc = "off" /\ ps_pages = None /\ ps_iter = <<>>

GeomAtRest ==
  /\ g_w = 0 /\ g_h = 0 /\ g_k = 0 /\ g_side = "right" /\ g_pc = "off"
  /\ g_page = Rect(0, 0, 0, 0) /\ g_orig = Rect(0, 0, 0, 0) /\ g_notes = Rect(0, 0, 0, 0)

RunAtRest == RunInit /\ ratio = 1

SlugAtRest ==
  /\ sl_in = <<>> /\ sl_pc = "off" /\ sl_out = <<>> /\ sl_again = <<>>

HeadersAtRest ==
  /\ hd_in = <<>> /\ hd_pc = "off" /\ hd_out = <<>> /\ hd_again = <<>>

Init == RunInit /\ PagesAtRest /\ GeomAtRest /\ SlugAtRest /\ HeadersAtRest

Next ==
  \/ StartRunParseError
  \/ StartRunNoNode
  \/ StartRun
  \/ BeginPageHit
  \/ BeginPageMiss
  \/ GenAttemptFails
  \/ GenAttemptSucceeds
  \/ RenderSucceeds
  \/ RenderFails
  \/ SaveOutput
  \/ ProcessExit

\* runs of the program, one after another, against one cache
Spec == Init /\ [][Next]_vars

\* the program runs on: the loop goes to its next page or to the save, and
\* each call of the service and each run of the renderer returns
Fairness ==
  /\ WF_vars(BeginPageHit)
  /\ WF_vars(BeginPageMiss)
  /\ WF_vars(GenAttemptFails \/ GenAttemptSucceeds)
  /\ WF_vars(RenderSucceeds \/ RenderFails)
  /\ WF_vars(SaveOutput)

NextFair ==
  \/ FairParseError
  \/ FairNoNode
  \/ FairStart
  \/ BeginPageHit
  \/ BeginPageMiss
  \/ GenAttemptFails
  \/ GenAttemptSucceeds
  \/ RenderSucceeds
  \/ RenderFails
  \/ SaveOutput
  \/ ProcessExit

\* the runs, none of them stopping half-way
SpecFair == Init /\ [][NextFair]_vars /\ Fairness

InitPages == PagesInit /\ GeomAtRest /\ RunAtRest /\ SlugAtRest /\ HeadersAtRest

NextPages == ResolvePages \/ ResolveRaises \/ DerivePagesIter

\* the page selector over every specification string of the alphabet
SpecPages == InitPages /\ [][NextPages]_vars

InitGeom == GeomInit /\ PagesAtRest /\ RunAtRest /\ SlugAtRest /\ HeadersAtRest

NextGeom == ComposeGeometry

\* the geometry of one page over every page size, ratio and side
SpecGeom == InitGeom /\ [][NextGeom]_vars

InitSlug == SlugInit /\ PagesAtRest /\ GeomAtRest /\ RunAtRest /\ HeadersAtRest

NextSlug == SlugOnce \/ SlugTwice

\* _slug over every string of the explored characters
SpecSlug == InitSlug /\ [][NextSlug]_vars

InitHeaders == HeadersInit /\ PagesAtRest /\ GeomAtRest /\ RunAtRest /\ SlugAtRest

NextHeaders == FormatOnce \/ FormatTwice

\* format_annotation_headers over every text of the explored tokens
SpecHeaders == InitHeaders /\ [][NextHeaders]_vars
====
